---- MODULE Spec2Model ----
(***************************************************************************)
(* Model of the dicether game-session verifier.  Two variants of the       *)
(* verifier are kept in the repository: src/index.js (the later one) and   *)
(* src/unnamed/part_000 (the earlier one).  The variable "variant" says    *)
(* which of the two files is running.                                      *)
(*                                                                         *)
(* One behaviour is one click on the verify button: the ledger events and  *)
(* the bet list have been fetched, getGameData turns the LogGameEnded      *)
(* event into the game data, verifyBets runs (entry checks, one step per   *)
(* loop iteration, final check), and the result is alerted.  Then          *)
(* verifyBets is called a second time with the same arguments, that is     *)
(* with the same array object.  This is the specification Spec.            *)
(*                                                                         *)
(* The specification SpecSession follows the click handler and             *)
(* verifyGameSession instead, one step per callback, for two clicks whose  *)
(* callbacks interleave; there verifyBets runs within one callback.        *)
(***************************************************************************)
EXTENDS Integers, Sequences, FiniteSets, TLC

VARIABLES
    variant,        \* "index" (src/index.js) or "part_000" (src/unnamed/part_000)
    gameId,         \* the id typed into gameIdInput
    events,         \* what contract.getPastEvents returns for the two events
    delivered,      \* reponse.data.bets as the API delivered it (never written)
    bets,           \* the array object handed to verifyBets (reversed in place)
    gameData,       \* what getGameData resolves to
    pc,             \* position of the run
    i,              \* loop index of verifyBets
    prevBalance,    \* running balance of verifyBets
    userPrevHash,   \* verifyBets local
    serverPrevHash, \* verifyBets local
    result,         \* outcome of the current call of verifyBets
    alerted,        \* text passed to alert()
    call,           \* 1: the call made by verifyGameSession, 2: the repeated call
    firstResult,    \* outcome of call 1, kept for comparison
    world,          \* window.web3, the network, and the ledger and API data per session
    runs,           \* the verifications started by clicks: locals and position of each
    spinner         \* style.display of the spinner element

\* the variables of one run followed through verifyBets step by step
verifyVars == <<gameId, events, delivered, bets, gameData, pc, i, prevBalance,
                userPrevHash, serverPrevHash, result, alerted, call, firstResult>>

\* the variables of the runs started by clicks
sessionVars == <<world, runs, spinner>>

vars == <<variant, gameId, events, delivered, bets, gameData, pc, i, prevBalance,
          userPrevHash, serverPrevHash, result, alerted, call, firstResult,
          world, runs, spinner>>

(***************************************************************************)
(* Bounds of the model.                                                    *)
(***************************************************************************)
\* longest bet list
MaxBets == 2
\* a session differs from a consistently constructed one in at most this
\* many places
MaxDefects == 2

(***************************************************************************)
(* Program constants.                                                      *)
(***************************************************************************)
CHAIN_ID == 1
NEW_EIP_GAME_ID == 572
OLD_EIP_GAME_ID == 638
GAME_ID_CONTRACT_CHANGED == 5246
MinSupportedGameId == 256

Variants == {"index", "part_000"}

\* the value of a "let x;" that was never assigned
Undefined == 0 - 1

(***************************************************************************)
(* Era selection.                                                          *)
(***************************************************************************)
\* src/unnamed/part_000: getContractAddress; "throw" stands for the Error
getContractAddress(id) ==
    IF id < MinSupportedGameId THEN "throw"
    ELSE IF id < NEW_EIP_GAME_ID THEN "CONTRACT_ADDRESS2"
    ELSE IF id < OLD_EIP_GAME_ID THEN "CONTRACT_ADDRESS3"
    ELSE "CONTRACT_ADDRESS4"

\* getSignatureVersion with the first threshold compared inclusively
getSignatureVersion_Inclusive(id) ==
    IF id <= NEW_EIP_GAME_ID \/ id >= OLD_EIP_GAME_ID THEN 1 ELSE 2

\* src/unnamed/part_000: getSignatureVersion
getSignatureVersion(id) ==
    IF id < NEW_EIP_GAME_ID \/ id >= OLD_EIP_GAME_ID THEN 1 ELSE 2

\* src/index.js: the threshold branch of verifyGameSession
eraContractAddress(id) ==
    IF id >= GAME_ID_CONTRACT_CHANGED THEN "CONTRACT_ADDRESS" ELSE "CONTRACT_ADDRESS_OLD"

eraServerAddress(id) ==
    IF id >= GAME_ID_CONTRACT_CHANGED THEN "SERVER_ADDRESS" ELSE "SERVER_ADDRESS_OLD"

(***************************************************************************)
(* The @dicether/state-channel library, as far as the verifier uses it.    *)
(* keccak is a collision-free function on a finite space of hash values;   *)
(* a signature is the tuple of everything the signed digest binds.         *)
(***************************************************************************)
HashSpace == 8 * MaxBets + 8

keccak(x) == (x + 1) % HashSpace

\* the version verifySignature uses when the caller passes none
DefaultVersion == 2

Sign(data, chainId, contractAddress, address, version) ==
    [data |-> data, chainId |-> chainId, contractAddress |-> contractAddress,
     signer |-> address, version |-> version]

verifySignature(data, chainId, contractAddress, signature, address, version) ==
    signature = Sign(data, chainId, contractAddress, address, version)

\* the result number of a dice game: a mix of both seeds
calcResultNumber(gameType, serverSeed, userSeed, num) ==
    (serverSeed + 2 * userSeed) % 4

\* the user wins the stake when the result is below num and loses it otherwise
calcNewBalance(gameType, num, value, serverSeed, userSeed, balance) ==
    IF calcResultNumber(gameType, serverSeed, userSeed, num) < num
    THEN balance + value
    ELSE balance - value

(***************************************************************************)
(* Number.parseInt(returnValues.balance) / 1e9.                            *)
(* returnValues.balance is the decimal string of an int256 in wei; it is   *)
(* written here as [gwei |-> g, wei |-> d] for the integer g * 1e9 + d     *)
(* with d small.  A Number is an IEEE-754 double: integers of magnitude    *)
(* up to 2^53 are exact, and from 2^(52+j) on only multiples of 2^j exist, *)
(* parseInt rounding to the nearest one, ties to the even mantissa.        *)
(* The quotient is written [gwei |-> g, frac |-> r]: the integer g when    *)
(* r = 0, and a non-integer between g - 1 and g + 1 otherwise.             *)
(***************************************************************************)
\* 2^53 = 9007199 * 1e9 + 254740992
TwoPow53Gwei == 9007199

\* 2^(52+j) div 1e9, for j = 1..4
Pow2Gwei == <<TwoPow53Gwei, 18014398, 36028797, 72057594>>

Abs(x) == IF x < 0 THEN -x ELSE x

\* distance between neighbouring doubles at magnitude g * 1e9
Spacing(g) ==
    LET above == {j \in DOMAIN Pow2Gwei : Abs(g) > Pow2Gwei[j]}
        RECURSIVE pow(_)
        pow(n) == IF n = 0 THEN 1 ELSE 2 * pow(n - 1)
    IN  pow(Cardinality(above))

\* d rounded to the nearest multiple of s, ties to the multiple of 2 s
RoundTiesEven(d, s) ==
    LET m  == Abs(d)
        lo == (m \div s) * s
        hi == lo + s
        r  == IF 2 * (m - lo) < s THEN lo
              ELSE IF 2 * (m - lo) > s THEN hi
              ELSE IF lo % (2 * s) = 0 THEN lo ELSE hi
    IN  IF d < 0 THEN -r ELSE r

ParseInt(str) == [gwei |-> str.gwei, wei |-> RoundTiesEven(str.wei, Spacing(str.gwei))]

DivGwei(n) == [gwei |-> n.gwei, frac |-> n.wei]

\* a !== b for a converted settlement balance a and an integer balance b
NumNe(a, b) == ~(a.frac = 0 /\ a.gwei = b)

(***************************************************************************)
(* verifyBets.  An outcome is [status, msg, vals]: status "running",       *)
(* "returned" (return true) or "thrown"; msg is the constant text of the   *)
(* Error and vals the values concatenated into it, in order.               *)
(***************************************************************************)
Running == [status |-> "running", msg |-> "", vals |-> <<>>]
ReturnTrue == [status |-> "returned", msg |-> "", vals |-> <<>>]
Throw(msg, vals) == [status |-> "thrown", msg |-> msg, vals |-> vals]

\* bets.reverse()
Reverse(s) == [k \in 1..Len(s) |-> s[Len(s) + 1 - k]]

\* const numBets = roundId - (regularEnded ? 1 : 0)
numBets(roundId, regularEnded) == roundId - (IF regularEnded THEN 1 ELSE 0)

\* the count test without the closing round of a regular end
CountMismatch_NoClosingRound(bs, roundId, regularEnded) == Len(bs) # roundId

\* if (bets.length !== numBets)
CountMismatch(bs, roundId, regularEnded) == Len(bs) # numBets(roundId, regularEnded)

\* if (roundId === 0) return true;   only src/index.js has it
NothingToCheck(v, roundId) == v = "index" /\ roundId = 0

\* the checks on firstBet without the comparison with the end hashes
FirstBetCheck_NoAnchor(bs, serverEndHash, userEndHash) ==
    IF Len(bs) = 0
    THEN Throw("TypeError: Cannot read property 'serverHash' of undefined", <<>>)
    ELSE Running

\* the checks on firstBet = bets[0]; reading a field of bets[0] of an empty
\* array is a TypeError
FirstBetCheck(bs, serverEndHash, userEndHash) ==
    IF Len(bs) = 0
    THEN Throw("TypeError: Cannot read property 'serverHash' of undefined", <<>>)
    ELSE IF serverEndHash # bs[1].serverHash THEN Throw("Invalid first bet serverHash", <<>>)
    ELSE IF userEndHash # bs[1].userHash THEN Throw("Invalid first bet user Hash", <<>>)
    ELSE Running

signedBetData(bet) ==
    [roundId |-> bet.roundId, gameType |-> bet.gameType, num |-> bet.num,
     value |-> bet.value, balance |-> bet.balance, serverHash |-> bet.serverHash,
     userHash |-> bet.userHash, gameId |-> bet.gameId]

\* the contract address, server address and version given to verifySignature
sigContractAddress(v, id, bet) ==
    IF v = "index" THEN eraContractAddress(id) ELSE bet.contractAddress

sigServerAddress(v, id) ==
    IF v = "index" THEN eraServerAddress(id) ELSE "SERVER_ADDRESS"

sigVersion(v, id) ==
    IF v = "index" THEN DefaultVersion ELSE getSignatureVersion(id)

\* the server signature accepted from whoever made it
ServerSignatureValid_AnySigner(v, id, bet) ==
    verifySignature(signedBetData(bet), CHAIN_ID, sigContractAddress(v, id, bet),
                    bet.serverSig, bet.serverSig.signer, sigVersion(v, id))

ServerSignatureValid(v, id, bet) ==
    verifySignature(signedBetData(bet), CHAIN_ID, sigContractAddress(v, id, bet),
                    bet.serverSig, sigServerAddress(v, id), sigVersion(v, id))

UserSignatureValid(v, id, bet) ==
    verifySignature(signedBetData(bet), CHAIN_ID, sigContractAddress(v, id, bet),
                    bet.userSig, bet.user, sigVersion(v, id))

UserSeedValid(bet) == keccak(bet.userSeed) = bet.userHash

\* the server seed test comparing the hash with itself
ServerSeedValid_HashOnly(bet) == keccak(bet.serverHash) = keccak(bet.serverHash)

ServerSeedValid(bet) == keccak(bet.serverSeed) = bet.serverHash

\* the two tests under if (i !== 0); idx is the 0-based loop index
UserLinkValid(idx, bet, uPrev) == idx = 0 \/ keccak(bet.userHash) = uPrev

\* the server link test repeating the seed test
ServerLinkValid_SeedAgain(idx, bet, sPrev) == idx = 0 \/ keccak(bet.serverSeed) = bet.serverHash

ServerLinkValid(idx, bet, sPrev) == idx = 0 \/ keccak(bet.serverHash) = sPrev

\* src/unnamed/part_000 calls calcResultNumber without num
NoNum == "undefined"

resultNumShouldBe(v, bet) ==
    calcResultNumber(bet.gameType, bet.serverSeed, bet.userSeed,
                     IF v = "index" THEN bet.num ELSE NoNum)

ResultNumValid(v, bet) == bet.resultNum = resultNumShouldBe(v, bet)

\* the balance test as a lower bound
BalanceValid_AtLeast(bet, prev) == bet.balance >= prev

\* if (bet.balance !== prevBalance)
BalanceValid(bet, prev) == bet.balance = prev

\* the body of the for loop up to the update of prevBalance: the Error it throws
BetCheck(v, id, idx, bet, prev, uPrev, sPrev, balance) ==
    IF ~ServerSignatureValid(v, id, bet)
    THEN Throw("Invalid server signature for bet with roundId: ", <<bet.roundId>>)
    ELSE IF ~UserSignatureValid(v, id, bet)
    THEN Throw("Invalid player signature for bet with roundId: ", <<bet.roundId>>)
    ELSE IF ~UserSeedValid(bet)
    THEN Throw("Invalid user seed for bet with roundId: ", <<bet.roundId>>)
    ELSE IF ~ServerSeedValid(bet)
    THEN Throw("Invalid server seed for bet with roundId: ", <<bet.roundId>>)
    ELSE IF ~UserLinkValid(idx, bet, uPrev) THEN Throw("Invalid hash chain!", <<>>)
    ELSE IF ~ServerLinkValid(idx, bet, sPrev) THEN Throw("Invalid hash chain!", <<>>)
    ELSE IF ~ResultNumValid(v, bet)
    THEN Throw("Invalid number  instead of", <<bet.resultNum, resultNumShouldBe(v, bet)>>)
    ELSE IF ~BalanceValid(bet, prev)
    THEN Throw("Invalid balance  instead of ", <<bet.balance, balance.gwei, balance.frac>>)
    ELSE Running

\* prevBalance after the bet
NextBalance(bet, prev) ==
    calcNewBalance(bet.gameType, bet.num, bet.value, bet.serverSeed, bet.userSeed, prev)

\* the test guarding the last throw: src/index.js skips it when the session
\* did not end regularly, src/unnamed/part_000 never skips it
FinalBalanceInvalid(v, regularEnded, balance, prev) ==
    IF v = "index" THEN regularEnded /\ NumNe(balance, prev) ELSE NumNe(balance, prev)

FinalCheck(v, regularEnded, balance, prev) ==
    IF FinalBalanceInvalid(v, regularEnded, balance, prev)
    THEN Throw("Invalid game session balance  instead of ", <<prev, balance.gwei, balance.frac>>)
    ELSE ReturnTrue

\* the statements of verifyBets before the loop: the outcome and the array
VerifyBetsEntry(v, bs, gd) ==
    IF CountMismatch(bs, gd.roundId, gd.regularEnded)
    THEN [result |-> Throw("Invalid number of bets! Expected:  Got: ",
                           <<Len(bs), numBets(gd.roundId, gd.regularEnded)>>),
          bets |-> bs]
    ELSE IF NothingToCheck(v, gd.roundId)
    THEN [result |-> ReturnTrue, bets |-> bs]
    ELSE [result |-> FirstBetCheck(Reverse(bs), gd.serverEndHash, gd.userEndHash),
          bets |-> Reverse(bs)]

\* the loop from index idx (0-based) on, then the final check: the outcome
RECURSIVE VerifyBetsFrom(_, _, _, _, _, _, _, _)
VerifyBetsFrom(v, id, bs, gd, idx, prev, uPrev, sPrev) ==
    IF idx >= Len(bs)
    THEN FinalCheck(v, gd.regularEnded, gd.balance, prev)
    ELSE LET bet == bs[idx + 1]
             r   == BetCheck(v, id, idx, bet, prev, uPrev, sPrev, gd.balance)
         IN  IF r.status = "thrown" THEN r
             ELSE VerifyBetsFrom(v, id, bs, gd, idx + 1, NextBalance(bet, prev),
                                 bet.userHash, bet.serverHash)

\* verifyBets as a function of its arguments: the outcome of one whole call
verifyBets(v, id, bs, gd) ==
    LET e == VerifyBetsEntry(v, bs, gd)
    IN  IF e.result.status # "running" THEN e.result
        ELSE VerifyBetsFrom(v, id, e.bets, gd, 0, 0, Undefined, Undefined)

(***************************************************************************)
(* getGameData: the game data, or the rejection.                           *)
(***************************************************************************)
\* getGameData taking the first event whenever there is one
getGameData_FirstEvent(ev, id) ==
    IF Len(ev.created) = 0 \/ ev.created[1].gameId # id
    THEN [rejected |-> "Could not read game info (LogGameCreatedEvent)!"]
    ELSE IF Len(ev.ended) = 0 \/ ev.ended[1].gameId # id
    THEN [rejected |-> "Could not read game info (LogGameEndedEvent)!"]
    ELSE [rejected |-> "",
          roundId |-> ev.ended[1].roundId,
          balance |-> DivGwei(ParseInt(ev.ended[1].balance)),
          serverEndHash |-> ev.created[1].serverEndHash,
          userEndHash |-> ev.created[1].playerEndHash,
          regularEnded |-> (ev.ended[1].reason = 0)]

getGameData(ev, id) ==
    IF Len(ev.created) # 1 \/ ev.created[1].gameId # id
    THEN [rejected |-> "Could not read game info (LogGameCreatedEvent)!"]
    ELSE IF Len(ev.ended) # 1 \/ ev.ended[1].gameId # id
    THEN [rejected |-> "Could not read game info (LogGameEndedEvent)!"]
    ELSE [rejected |-> "",
          roundId |-> ev.ended[1].roundId,
          balance |-> DivGwei(ParseInt(ev.ended[1].balance)),
          serverEndHash |-> ev.created[1].serverEndHash,
          userEndHash |-> ev.created[1].playerEndHash,
          regularEnded |-> (ev.ended[1].reason = 0)]

(***************************************************************************)
(* The sessions the verifier is run on.  A session is constructed          *)
(* consistently (both hash chains generated from the last hash to the      *)
(* first, result numbers and balances computed with the library, every bet *)
(* signed by the server and by the user, the ledger events matching) and   *)
(* then changed in at most MaxDefects places.  A defect is                 *)
(* [k |-> position, f |-> what]: k = 0 for the ledger events and the order *)
(* of the list, k >= 1 for a field of the k-th bet placed.  Signatures are *)
(* made over the bet data as delivered, so that a changed field is         *)
(* reached by the check that reads it; an invalid signature is a defect of *)
(* its own.                                                                *)
(***************************************************************************)
GameIds == {NEW_EIP_GAME_ID}

\* every bet stakes the smallest number of gwei whose wei amount exceeds 2^53
Stake == TwoPow53Gwei + 1

ServerAnchor == 4 * MaxBets + 2
UserAnchor == 8 * MaxBets + 3

\* another hash value
Wrong(x) == (x + 4 * MaxBets + 4) % HashSpace

BetDefects == {"roundId", "gameId", "user", "contractAddress", "serverHash", "userHash",
               "serverSeed", "userSeed", "resultNum", "balance", "serverSig", "userSig"}

LedgerDefects == {"serverEndHash", "userEndHash", "roundIdPlus", "roundIdMinus",
                  "settledWei", "settledGwei", "oldestFirst"}

AllDefects(n) ==
    [k : 1..n, f : BetDefects] \cup [k : {0}, f : LedgerDefects] \cup [k : 1..(n - 1), f : {"swap"}]

RECURSIVE SubsetsUpTo(_, _)
SubsetsUpTo(S, m) ==
    IF m = 0 THEN {{}}
    ELSE LET P == SubsetsUpTo(S, m - 1) IN P \cup {p \cup {x} : p \in P, x \in S}

Has(D, k, f) == [k |-> k, f |-> f] \in D

\* the balance before the k-th bet of the consistent session
RECURSIVE ConsistentBalance(_)
ConsistentBalance(k) ==
    IF k <= 1 THEN 0
    ELSE calcNewBalance(1, 2, Stake, ServerAnchor - (k - 1), UserAnchor - (k - 1),
                        ConsistentBalance(k - 1))

HonestContract(v, id) == IF v = "index" THEN eraContractAddress(id) ELSE getContractAddress(id)

\* the k-th bet placed, without its signatures
BetData(v, id, k, D) ==
    [roundId |-> IF Has(D, k, "roundId") THEN k + 1 ELSE k,
     gameType |-> 1,
     num |-> 2,
     value |-> Stake,
     balance |-> ConsistentBalance(k) + (IF Has(D, k, "balance") THEN 1 ELSE 0),
     serverHash |-> IF Has(D, k, "serverHash") THEN Wrong(ServerAnchor - (k - 1))
                    ELSE ServerAnchor - (k - 1),
     userHash |-> IF Has(D, k, "userHash") THEN Wrong(UserAnchor - (k - 1))
                  ELSE UserAnchor - (k - 1),
     serverSeed |-> IF Has(D, k, "serverSeed") THEN Wrong(ServerAnchor - k)
                    ELSE ServerAnchor - k,
     userSeed |-> IF Has(D, k, "userSeed") THEN Wrong(UserAnchor - k)
                  ELSE UserAnchor - k,
     resultNum |-> (calcResultNumber(1, ServerAnchor - k, UserAnchor - k, 2)
                    + (IF Has(D, k, "resultNum") THEN 1 ELSE 0)) % 4,
     gameId |-> IF Has(D, k, "gameId") THEN id + 1 ELSE id,
     user |-> IF Has(D, k, "user") THEN "user2" ELSE "user1",
     contractAddress |-> IF Has(D, k, "contractAddress") THEN "CONTRACT_ADDRESS_OTHER"
                         ELSE HonestContract(v, id)]

\* the k-th bet placed, signed
Bet(v, id, k, D) ==
    LET b == BetData(v, id, k, D)
        serverSig == Sign(signedBetData(b), CHAIN_ID, b.contractAddress,
                          IF Has(D, k, "serverSig") THEN "nobody" ELSE sigServerAddress(v, id),
                          sigVersion(v, id))
        userSig == Sign(signedBetData(b), CHAIN_ID, b.contractAddress,
                        IF Has(D, k, "userSig") THEN "nobody" ELSE b.user,
                        sigVersion(v, id))
    IN  [roundId |-> b.roundId, gameType |-> b.gameType, num |-> b.num, value |-> b.value,
         balance |-> b.balance, serverHash |-> b.serverHash, userHash |-> b.userHash,
         serverSeed |-> b.serverSeed, userSeed |-> b.userSeed, resultNum |-> b.resultNum,
         gameId |-> b.gameId, user |-> b.user, contractAddress |-> b.contractAddress,
         serverSig |-> serverSig, userSig |-> userSig]

\* s with the elements at p and p + 1 exchanged
SwapAt(s, p) ==
    [k \in 1..Len(s) |-> IF k = p THEN s[p + 1] ELSE IF k = p + 1 THEN s[p] ELSE s[k]]

RECURSIVE ApplySwaps(_, _, _)
ApplySwaps(s, D, p) ==
    IF p >= Len(s) THEN s
    ELSE ApplySwaps(IF Has(D, p, "swap") THEN SwapAt(s, p) ELSE s, D, p + 1)

\* the list the API delivers: newest first
Delivered(v, id, n, D) ==
    LET placed == [k \in 1..n |-> Bet(v, id, k, D)]
        list   == IF Has(D, 0, "oldestFirst") THEN placed ELSE Reverse(placed)
    IN  ApplySwaps(list, D, 1)

\* the roundId of the LogGameEnded event
EndedRoundId(n, reg, D) ==
    n + (IF reg THEN 1 ELSE 0) + (IF Has(D, 0, "roundIdPlus") THEN 1 ELSE 0)
      - (IF Has(D, 0, "roundIdMinus") THEN 1 ELSE 0)

Events(id, n, reg, D) ==
    [created |-> <<[gameId |-> id,
                    serverEndHash |-> IF Has(D, 0, "serverEndHash") THEN Wrong(ServerAnchor)
                                      ELSE ServerAnchor,
                    playerEndHash |-> IF Has(D, 0, "userEndHash") THEN Wrong(UserAnchor)
                                      ELSE UserAnchor]>>,
     ended |-> <<[gameId |-> id,
                  roundId |-> EndedRoundId(n, reg, D),
                  balance |-> [gwei |-> ConsistentBalance(n + 1)
                                        + (IF Has(D, 0, "settledGwei") THEN 1 ELSE 0),
                               wei |-> IF Has(D, 0, "settledWei") THEN 1 ELSE 0],
                  reason |-> IF reg THEN 0 ELSE 1]>>]

NoGameData == [rejected |-> "pending"]
\* no click handler is followed
NoWorld == [web3 |-> TRUE, network |-> CHAIN_ID, sessions |-> <<>>]
NoAlert == [msg |-> "", vals |-> <<>>, error |-> ""]

\* the number of defects of a session of n bets: a session one bet longer than
\* MaxBets has at most one
DefectBudget(n) == IF n > MaxBets THEN 1 ELSE MaxDefects

Init ==
    \E v \in Variants, id \in GameIds, n \in 0..(MaxBets + 1), reg \in BOOLEAN :
      \E D \in SubsetsUpTo(AllDefects(n), DefectBudget(n)) :
        /\ EndedRoundId(n, reg, D) >= 0
        /\ variant = v
        /\ gameId = id
        /\ events = Events(id, n, reg, D)
        /\ delivered = Delivered(v, id, n, D)
        /\ bets = Delivered(v, id, n, D)
        /\ gameData = NoGameData
        /\ pc = "getGameData"
        /\ i = 0
        /\ prevBalance = 0
        /\ userPrevHash = Undefined
        /\ serverPrevHash = Undefined
        /\ result = Running
        /\ alerted = NoAlert
        /\ call = 1
        /\ firstResult = Running
        /\ world = NoWorld
        /\ runs = <<>>
        /\ spinner = "none"

(***************************************************************************)
(* The steps of a run.                                                     *)
(***************************************************************************)
\* getGameData resolves or rejects
GetGameData ==
    /\ pc = "getGameData"
    /\ gameData' = getGameData(events, gameId)
    /\ pc' = IF getGameData(events, gameId).rejected = "" THEN "verifyBets" ELSE "rejected"
    /\ UNCHANGED <<variant, gameId, events, delivered, bets, i, prevBalance, userPrevHash,
                   serverPrevHash, result, alerted, call, firstResult>>
    /\ UNCHANGED sessionVars

\* verifyBets is entered: the statements before the loop
VerifyBetsCall ==
    /\ pc = "verifyBets"
    /\ LET e == VerifyBetsEntry(variant, bets, gameData)
       IN  /\ bets' = e.bets
           /\ result' = e.result
           /\ pc' = IF e.result.status = "running" THEN "loop" ELSE "done"
    /\ i' = 0
    /\ prevBalance' = 0
    /\ userPrevHash' = Undefined
    /\ serverPrevHash' = Undefined
    /\ UNCHANGED <<variant, gameId, events, delivered, gameData, alerted, call, firstResult>>
    /\ UNCHANGED sessionVars

\* one iteration of the for loop
LoopIteration ==
    /\ pc = "loop"
    /\ i < Len(bets)
    /\ LET bet == bets[i + 1]
           r   == BetCheck(variant, gameId, i, bet, prevBalance, userPrevHash,
                           serverPrevHash, gameData.balance)
       IN  IF r.status = "thrown"
           THEN /\ result' = r
                /\ pc' = "done"
                /\ UNCHANGED <<i, prevBalance, userPrevHash, serverPrevHash>>
           ELSE /\ userPrevHash' = bet.userHash
                /\ serverPrevHash' = bet.serverHash
                /\ prevBalance' = NextBalance(bet, prevBalance)
                /\ i' = i + 1
                /\ UNCHANGED <<result, pc>>
    /\ UNCHANGED <<variant, gameId, events, delivered, bets, gameData, alerted, call,
                   firstResult>>
    /\ UNCHANGED sessionVars

\* the loop is over: the final balance check and return true
LoopExit ==
    /\ pc = "loop"
    /\ i >= Len(bets)
    /\ result' = FinalCheck(variant, gameData.regularEnded, gameData.balance, prevBalance)
    /\ pc' = "done"
    /\ UNCHANGED <<variant, gameId, events, delivered, bets, gameData, i, prevBalance,
                   userPrevHash, serverPrevHash, alerted, call, firstResult>>
    /\ UNCHANGED sessionVars

\* the last callbacks of verifyGameSession and of the click handler
AlertText(status, res, n, id) ==
    IF status = "rejected"
    THEN [msg |-> "Could not verify game session with id: : ", vals |-> <<id>>,
          error |-> "Could not read game info"]
    ELSE IF res.status = "thrown"
    THEN [msg |-> "Could not verify game session with id: : ", vals |-> <<id>>,
          error |-> res.msg]
    ELSE [msg |-> "All  bets for game session  are valid!", vals |-> <<n, id>>, error |-> ""]

Alert ==
    /\ pc \in {"done", "rejected"}
    /\ call = 1
    /\ alerted' = AlertText(pc, result, Len(bets), gameId)
    /\ pc' = "alerted"
    /\ UNCHANGED <<variant, gameId, events, delivered, bets, gameData, i, prevBalance,
                   userPrevHash, serverPrevHash, result, call, firstResult>>
    /\ UNCHANGED sessionVars

\* verifyBets is called once more with the arguments of the first call
CallAgain ==
    /\ pc = "alerted"
    /\ call = 1
    /\ gameData.rejected = ""
    /\ call' = 2
    /\ firstResult' = result
    /\ result' = Running
    /\ pc' = "verifyBets"
    /\ UNCHANGED <<variant, gameId, events, delivered, bets, gameData, i, prevBalance,
                   userPrevHash, serverPrevHash, alerted>>
    /\ UNCHANGED sessionVars

Next == GetGameData \/ VerifyBetsCall \/ LoopIteration \/ LoopExit \/ Alert \/ CallAgain

Spec == Init /\ [][Next]_vars

(***************************************************************************)
(* The click handler and verifyGameSession, one step per callback.  Two    *)
(* clicks are followed at a time, each for a session of its own; their     *)
(* callbacks run in any order.  The world (window.web3, the network the    *)
(* provider is on, what the API and the ledger hold for each session) is   *)
(* fixed at the start.                                                     *)
(***************************************************************************)
RunIds == {"a", "b"}

\* the game ids around the thresholds of both variants
EraIds ==
    {MinSupportedGameId - 1, MinSupportedGameId, NEW_EIP_GAME_ID - 1, NEW_EIP_GAME_ID,
     OLD_EIP_GAME_ID - 1, OLD_EIP_GAME_ID, GAME_ID_CONTRACT_CHANGED - 1,
     GAME_ID_CONTRACT_CHANGED}

\* what is typed into gameIdInput: a number, or text Number.parseInt turns into NaN
TypedA == {[isNumber |-> TRUE, value |-> id] : id \in EraIds}
          \cup {[isNumber |-> FALSE, value |-> 0]}
TypedB == {[isNumber |-> TRUE, value |-> id] :
              id \in {NEW_EIP_GAME_ID + 1, GAME_ID_CONTRACT_CHANGED + 1}}

\* the network ids web3.eth.net.getId() can return
Networks == {CHAIN_ID, CHAIN_ID + 2}

\* what the API and the ledger hold for a session
SessionKinds ==
    {"noBets", "valid", "badServerSig", "settledOff", "noCreated", "twoCreated",
     "otherCreated", "noEnded", "twoEnded", "otherEnded"}
KindsA(typed) == IF typed.isNumber THEN SessionKinds ELSE {"valid"}
KindsB == {"valid", "badServerSig", "noCreated"}

KindDefects(kind) ==
    IF kind = "badServerSig" THEN {[k |-> 1, f |-> "serverSig"]}
    ELSE IF kind = "settledOff" THEN {[k |-> 0, f |-> "settledGwei"]}
    ELSE {}

\* the list getPastEvents returns: no event, the event twice, or the event of
\* another session
ShapedEvents(list, shape) ==
    IF shape = "none" THEN <<>>
    ELSE IF shape = "two" THEN list \o list
    ELSE IF shape = "other" THEN <<[list[1] EXCEPT !.gameId = list[1].gameId + 1]>>
    ELSE list

CreatedShape(kind) ==
    IF kind = "noCreated" THEN "none" ELSE IF kind = "twoCreated" THEN "two"
    ELSE IF kind = "otherCreated" THEN "other" ELSE "one"

EndedShape(kind) ==
    IF kind = "noEnded" THEN "none" ELSE IF kind = "twoEnded" THEN "two"
    ELSE IF kind = "otherEnded" THEN "other" ELSE "one"

SessionOf(v, id, kind) ==
    LET n  == IF kind = "noBets" THEN 0 ELSE 1
        D  == KindDefects(kind)
        ev == Events(id, n, kind # "noBets", D)
    IN  [bets    |-> Delivered(v, id, n, D),
         created |-> ShapedEvents(ev.created, CreatedShape(kind)),
         ended   |-> ShapedEvents(ev.ended, EndedShape(kind))]

\* what the API and the ledger answer to a request for session q
Answer(q) ==
    IF q \in DOMAIN world.sessions THEN world.sessions[q]
    ELSE [bets |-> <<>>, created |-> <<>>, ended |-> <<>>]

NewRun(typed) ==
    [input |-> typed, pc |-> "idle", gameId |-> Undefined, contractAddress |-> "none",
     serverAddress |-> "none", query |-> Undefined, betsFetched |-> FALSE, bets |-> <<>>,
     createdQueried |-> FALSE, created |-> <<>>, endedQueried |-> FALSE,
     gameData |-> NoGameData, verifyCalled |-> FALSE, error |-> "", alert |-> NoAlert,
     concurrent |-> FALSE]

InitSession ==
    \E v \in Variants, w \in BOOLEAN, net \in Networks, ta \in TypedA, tb \in TypedB :
      \E ka \in KindsA(ta), kb \in KindsB :
        /\ variant = v
        /\ world = [web3 |-> w, network |-> net,
                    sessions |-> (ta.value :> SessionOf(v, ta.value, ka))
                                 @@ (tb.value :> SessionOf(v, tb.value, kb))]
        /\ runs = [r \in RunIds |-> NewRun(IF r = "a" THEN ta ELSE tb)]
        /\ spinner = "none"
        /\ gameId = Undefined
        /\ events = [created |-> <<>>, ended |-> <<>>]
        /\ delivered = <<>>
        /\ bets = <<>>
        /\ gameData = NoGameData
        /\ pc = "clicks"
        /\ i = 0
        /\ prevBalance = 0
        /\ userPrevHash = Undefined
        /\ serverPrevHash = Undefined
        /\ result = Running
        /\ alerted = NoAlert
        /\ call = 1
        /\ firstResult = Running

\* the contract and the server address verifyGameSession selects, or the Error
\* thrown while selecting: the threshold branch of src/index.js, the call of
\* getContractAddress of src/unnamed/part_000
EraSelection(v, id) ==
    IF v = "index"
    THEN [thrown |-> "", contractAddress |-> eraContractAddress(id),
          serverAddress |-> eraServerAddress(id)]
    ELSE IF getContractAddress(id) = "throw"
    THEN [thrown |-> "Verification not supported for games below game id 256!",
          contractAddress |-> "none", serverAddress |-> "none"]
    ELSE [thrown |-> "", contractAddress |-> getContractAddress(id),
          serverAddress |-> "SERVER_ADDRESS"]

ParseAlert == [msg |-> "Could not parse gameId", vals |-> <<>>, error |-> ""]
ErrorAlert(id, error) ==
    [msg |-> "Could not verify game session with id: : ", vals |-> <<id>>, error |-> error]

\* the gameId the closure of run r uses, read as if gameId were one variable
\* shared by all runs: the id of the other run once that run has started
QueryGameId_Shared(r) ==
    IF \E o \in RunIds \ {r} : runs[o].pc # "idle" /\ runs[o].input.isNumber
    THEN runs[CHOOSE o \in RunIds \ {r} :
                  runs[o].pc # "idle" /\ runs[o].input.isNumber].input.value
    ELSE runs[r].gameId

\* the gameId the closure of run r uses in its requests
QueryGameId(r) == runs[r].gameId

\* another run is between its click and its last callback
Overlaps(r) == \E o \in RunIds \ {r} : runs[o].pc \notin {"idle", "finished"}

\* the click handler up to the return of verifyGameSession
Click(r) ==
    /\ runs[r].pc = "idle"
    /\ LET typed == runs[r].input
           id    == typed.value
           era   == EraSelection(variant, id)
       IN  IF ~typed.isNumber
           THEN /\ runs' = [runs EXCEPT ![r].pc = "finished", ![r].alert = ParseAlert]
                /\ spinner' = "inline-block"
           ELSE IF ~world.web3
           THEN /\ runs' = [runs EXCEPT ![r].pc = "finished", ![r].gameId = id,
                                        ![r].error = "You need a web3 enabled browser!",
                                        ![r].alert =
                                            ErrorAlert(id, "You need a web3 enabled browser!")]
                /\ spinner' = "none"
           ELSE IF era.thrown # ""
           THEN /\ runs' = [runs EXCEPT ![r].pc = "finished", ![r].gameId = id,
                                        ![r].error = era.thrown,
                                        ![r].alert = ErrorAlert(id, era.thrown)]
                /\ spinner' = "none"
           ELSE /\ runs' = [runs EXCEPT ![r].pc = "getId", ![r].gameId = id,
                                        ![r].contractAddress = era.contractAddress,
                                        ![r].serverAddress = era.serverAddress,
                                        ![r].concurrent = Overlaps(r)]
                /\ spinner' = "inline-block"
    /\ UNCHANGED <<variant, verifyVars, world>>

\* web3.eth.net.getId() resolved: the network check, then axios.get
OnNetwork(r) ==
    /\ runs[r].pc = "getId"
    /\ IF world.network # CHAIN_ID
       THEN runs' = [runs EXCEPT ![r].pc = "rejected",
                                 ![r].error = "You need to use the Main Network",
                                 ![r].concurrent = @ \/ Overlaps(r)]
       ELSE runs' = [runs EXCEPT ![r].pc = "axios", ![r].query = QueryGameId(r),
                                 ![r].concurrent = @ \/ Overlaps(r)]
    /\ UNCHANGED <<variant, verifyVars, world, spinner>>

\* axios.get resolved: bets taken from the response, getGameData called, which
\* asks for the LogGameCreated events
OnBets(r) ==
    /\ runs[r].pc = "axios"
    /\ runs' = [runs EXCEPT ![r].pc = "created",
                            ![r].betsFetched = TRUE,
                            ![r].bets = Answer(runs[r].query).bets,
                            ![r].createdQueried = TRUE,
                            ![r].query = QueryGameId(r),
                            ![r].concurrent = @ \/ Overlaps(r)]
    /\ UNCHANGED <<variant, verifyVars, world, spinner>>

\* the LogGameCreated events arrived: the first callback of getGameData
OnCreated(r) ==
    /\ runs[r].pc = "created"
    /\ LET evs == Answer(runs[r].query).created
           g   == getGameData([created |-> evs, ended |-> <<>>], runs[r].gameId)
       IN  IF g.rejected = "Could not read game info (LogGameCreatedEvent)!"
           THEN runs' = [runs EXCEPT ![r].pc = "rejected", ![r].error = g.rejected,
                                     ![r].concurrent = @ \/ Overlaps(r)]
           ELSE runs' = [runs EXCEPT ![r].pc = "ended", ![r].created = evs,
                                     ![r].endedQueried = TRUE,
                                     ![r].query = QueryGameId(r),
                                     ![r].concurrent = @ \/ Overlaps(r)]
    /\ UNCHANGED <<variant, verifyVars, world, spinner>>

\* the LogGameEnded events arrived: the second callback of getGameData
OnEnded(r) ==
    /\ runs[r].pc = "ended"
    /\ LET evs == Answer(runs[r].query).ended
           g   == getGameData([created |-> runs[r].created, ended |-> evs], runs[r].gameId)
       IN  IF g.rejected # ""
           THEN runs' = [runs EXCEPT ![r].pc = "rejected", ![r].error = g.rejected,
                                     ![r].concurrent = @ \/ Overlaps(r)]
           ELSE runs' = [runs EXCEPT ![r].pc = "verify", ![r].gameData = g,
                                     ![r].concurrent = @ \/ Overlaps(r)]
    /\ UNCHANGED <<variant, verifyVars, world, spinner>>

\* Promise.all resolved: verifyBets runs to its end, and the alert that follows
OnVerify(r) ==
    /\ runs[r].pc = "verify"
    /\ LET res == verifyBets(variant, runs[r].gameId, runs[r].bets, runs[r].gameData)
           arr == VerifyBetsEntry(variant, runs[r].bets, runs[r].gameData).bets
       IN  IF res.status = "thrown"
           THEN runs' = [runs EXCEPT ![r].pc = "rejected", ![r].verifyCalled = TRUE,
                                     ![r].bets = arr, ![r].error = res.msg,
                                     ![r].concurrent = @ \/ Overlaps(r)]
           ELSE runs' = [runs EXCEPT ![r].pc = "resolved", ![r].verifyCalled = TRUE,
                                     ![r].bets = arr,
                                     ![r].alert = AlertText("done", res, Len(arr),
                                                            runs[r].gameId),
                                     ![r].concurrent = @ \/ Overlaps(r)]
    /\ UNCHANGED <<variant, verifyVars, world, spinner>>

\* the then or the catch of the click handler
OnSettled(r) ==
    /\ runs[r].pc \in {"resolved", "rejected"}
    /\ runs' = [runs EXCEPT ![r].pc = "finished",
                            ![r].alert = IF runs[r].pc = "rejected"
                                         THEN ErrorAlert(runs[r].gameId, runs[r].error)
                                         ELSE @,
                            ![r].concurrent = @ \/ Overlaps(r)]
    /\ spinner' = "none"
    /\ UNCHANGED <<variant, verifyVars, world>>

NextSession ==
    \E r \in RunIds :
        \/ Click(r)
        \/ OnNetwork(r)
        \/ OnBets(r)
        \/ OnCreated(r)
        \/ OnEnded(r)
        \/ OnVerify(r)
        \/ OnSettled(r)

SpecSession == InitSession /\ [][NextSession]_vars

(***************************************************************************)
(* What the specification calls a consistent session, said of the inputs   *)
(* of a run: the ledger events and the list as delivered.                  *)
(***************************************************************************)
Created == events.created[1]
Ended == events.ended[1]

\* finalRoundCount - (endedNormally ? 1 : 0)
ExpectedCount == Ended.roundId - (IF Ended.reason = 0 THEN 1 ELSE 0)
EndedNormally == Ended.reason = 0

\* the records in the order they were placed, the API delivering newest first
Placed == Reverse(delivered)

\* the balance after the first k records of s, replayed from zero
RECURSIVE Replayed(_, _)
Replayed(s, k) ==
    IF k = 0 THEN 0
    ELSE calcNewBalance(s[k].gameType, s[k].num, s[k].value, s[k].serverSeed,
                        s[k].userSeed, Replayed(s, k - 1))

\* the first record of s whose declared balance is not the replayed one, or 0
FirstMismatch(s) ==
    LET bad == {k \in 1..Len(s) : s[k].balance # Replayed(s, k - 1)}
    IN  IF bad = {} THEN 0 ELSE CHOOSE k \in bad : \A m \in bad : k <= m

Content(b) ==
    [roundId |-> b.roundId, gameType |-> b.gameType, num |-> b.num, value |-> b.value,
     balance |-> b.balance, serverHash |-> b.serverHash, userHash |-> b.userHash,
     gameId |-> b.gameId]

EraContract == IF variant = "index" THEN eraContractAddress(gameId) ELSE getContractAddress(gameId)
EraServer == IF variant = "index" THEN eraServerAddress(gameId) ELSE "SERVER_ADDRESS"
EraVersion == IF variant = "index" THEN DefaultVersion ELSE getSignatureVersion(gameId)

ServerSigOk(b) == b.serverSig = Sign(Content(b), CHAIN_ID, EraContract, EraServer, EraVersion)
UserSigOk(b) == b.userSig = Sign(Content(b), CHAIN_ID, EraContract, b.user, EraVersion)
SeedsOk(b) == keccak(b.serverSeed) = b.serverHash /\ keccak(b.userSeed) = b.userHash
OutcomeOk(b) == b.resultNum = calcResultNumber(b.gameType, b.serverSeed, b.userSeed, b.num)
AnchorsOk(s) ==
    Len(s) > 0 => s[1].serverHash = Created.serverEndHash /\ s[1].userHash = Created.playerEndHash
LinkOk(s, k) ==
    k > 1 => keccak(s[k].serverHash) = s[k - 1].serverHash
             /\ keccak(s[k].userHash) = s[k - 1].userHash
BalanceOk(s, k) == s[k].balance = Replayed(s, k - 1)
SettledOk(s) == Ended.balance = [gwei |-> Replayed(s, Len(s)), wei |-> 0]

\* everything about record k of s except its signatures
RecordOkButSigs(s, k) == SeedsOk(s[k]) /\ LinkOk(s, k) /\ OutcomeOk(s[k]) /\ BalanceOk(s, k)
RecordOk(s, k) == ServerSigOk(s[k]) /\ UserSigOk(s[k]) /\ RecordOkButSigs(s, k)

SessionConsistent ==
    /\ Len(delivered) = ExpectedCount
    /\ AnchorsOk(Placed)
    /\ \A k \in 1..Len(Placed) : RecordOk(Placed, k)
    /\ SettledOk(Placed)

\* the texts of the Errors
CountError == "Invalid number of bets! Expected:  Got: "
AnchorErrors == {"Invalid first bet serverHash", "Invalid first bet user Hash"}
SignatureErrors == {"Invalid server signature for bet with roundId: ",
                    "Invalid player signature for bet with roundId: "}
SeedErrors == {"Invalid user seed for bet with roundId: ",
               "Invalid server seed for bet with roundId: "}
ChainError == "Invalid hash chain!"
OutcomeError == "Invalid number  instead of"
BalanceError == "Invalid balance  instead of "
FinalBalanceError == "Invalid game session balance  instead of "
LoopErrors == SignatureErrors \cup SeedErrors \cup {ChainError, OutcomeError, BalanceError}

\* the delivered list d is the list of a consistent session
ConsistentList(d) ==
    /\ Len(d) = ExpectedCount
    /\ AnchorsOk(Reverse(d))
    /\ \A k \in 1..Len(d) : RecordOk(Reverse(d), k)
    /\ SettledOk(Reverse(d))

FirstCallDone == call = 1 /\ pc = "done"
Succeeded == result.status = "returned"
Failed(msg) == result.status = "thrown" /\ result.msg = msg
AbortedInLoop == pc = "done" /\ result.status = "thrown" /\ result.msg \in LoopErrors

(***************************************************************************)
(* The claims.                                                             *)
(***************************************************************************)

\* C1: a normally ended session verifies only if the settled amount in wei is
\* exactly the final running balance times 10^9, and an otherwise consistent
\* normally ended session whose settled amount is anything else fails with the
\* final-balance error.
C1_SettledBalanceExact ==
    (FirstCallDone /\ variant = "index" /\ EndedNormally) =>
        /\ Succeeded => Ended.balance = [gwei |-> prevBalance, wei |-> 0]
        /\ ( /\ Len(delivered) = ExpectedCount
             /\ Len(delivered) > 0
             /\ AnchorsOk(Placed)
             /\ \A k \in 1..Len(Placed) : RecordOk(Placed, k)
             /\ ~SettledOk(Placed) ) => Failed(FinalBalanceError)

\* the settled balances a run is compared with in C2
AltBalances(b) == {[gwei |-> b.gwei + dg, frac |-> df] : dg \in {0, 1}, df \in {0, 1}}

\* C2: when the session did not end normally the verdict does not depend on the
\* settled balance: the same call with any other settled balance ends the same
\* way, in both variants.
C2_SettledBalanceIgnored ==
    (FirstCallDone /\ ~EndedNormally) =>
        \A alt \in AltBalances(gameData.balance) :
            LET other == verifyBets(variant, gameId, delivered,
                                    [gameData EXCEPT !.balance = alt])
            IN  other.status = result.status /\ other.msg = result.msg

\* C3: with an expected record count of zero and an empty list verifyBets
\* returns true at once, raising no error, whether finalRoundCount is 0 (ended
\* abnormally) or 1 (ended normally).
C3_ZeroRoundsSucceed ==
    (FirstCallDone /\ ExpectedCount = 0 /\ Len(delivered) = 0) => Succeeded /\ i = 0

\* C4: verifyBets fails with the count error exactly when the number of records
\* differs from finalRoundCount - 1 (ended normally) or finalRoundCount (ended
\* abnormally), and it does so before anything else: the list is not reversed
\* and no record is looked at, whatever else is wrong with the session.
C4_CountMismatch ==
    pc = "done" =>
        /\ Failed(CountError) <=> Len(bets) # ExpectedCount
        /\ Failed(CountError) =>
              /\ result.vals = <<Len(bets), ExpectedCount>>
              /\ i = 0
              /\ call = 1 => bets = delivered

C4_Witness ==
    /\ FirstCallDone
    /\ Failed(CountError)
    /\ Len(delivered) = 2
    /\ ~AnchorsOk(Placed)

C4_WitnessAgree ==
    /\ FirstCallDone
    /\ Len(delivered) = ExpectedCount
    /\ Len(delivered) = 2
    /\ result.status = "thrown"

C6_HashChainSound ==
    (FirstCallDone /\ Succeeded /\ Len(delivered) > 0) =>
        /\ Placed[1].serverHash = Created.serverEndHash
        /\ Placed[1].userHash = Created.playerEndHash
        /\ \A k \in 2..Len(Placed) :
              /\ keccak(Placed[k].serverHash) = Placed[k - 1].serverHash
              /\ keccak(Placed[k].userHash) = Placed[k - 1].userHash

C6_Witness == FirstCallDone /\ Succeeded /\ Len(delivered) = 2

C6_WitnessBroken == FirstCallDone /\ Failed(ChainError) /\ i = 1

\* C7: a consistently constructed session delivered newest first verifies, and
\* the count reported is the number of records.
C7_Completeness ==
    (call = 1 /\ variant = "index" /\ SessionConsistent) =>
        /\ pc = "done" => Succeeded
        /\ pc = "alerted" =>
              alerted = [msg |-> "All  bets for game session  are valid!",
                         vals |-> <<Len(delivered), gameId>>, error |-> ""]

\* C8: verifyBets leaves the list it is given as it was, in order and content,
\* and a second call with the same arguments gives the verdict of the first.
C8_InputsUntouched ==
    /\ bets = delivered
    /\ (call = 2 /\ pc = "done") =>
          result.status = firstResult.status /\ result.msg = firstResult.msg

\* C9: every Error thrown about a record names the kind of check and the round
\* id of the record, and an anchor or chain-link Error also names the side.
\* ("first bet" in the anchor Errors is taken to name the record.)
NamesRoundId(r, b) ==
    \/ r.msg \in AnchorErrors
    \/ r.msg \in SignatureErrors \cup SeedErrors /\ r.vals = <<b.roundId>>

NamesSide(r) ==
    r.msg \in AnchorErrors \cup SignatureErrors \cup SeedErrors

C9_ErrorsAttributed ==
    (pc = "done" /\ result.status = "thrown" /\ result.msg \in LoopErrors \cup AnchorErrors) =>
        /\ NamesRoundId(result, bets[i + 1])
        /\ result.msg \in AnchorErrors \cup {ChainError} => NamesSide(result)

\* C10: in a session that is consistent but for the server or the user
\* signature of record k, verifyBets of src/index.js fails with the signature
\* error that carries the roundId of record k.
C10_InvalidSignatureAttributed ==
    (FirstCallDone /\ variant = "index") =>
        \A k \in 1..Len(Placed) :
            ( /\ Len(delivered) = ExpectedCount
              /\ AnchorsOk(Placed)
              /\ \A m \in 1..Len(Placed) : RecordOkButSigs(Placed, m)
              /\ \A m \in 1..Len(Placed) :
                    m # k => ServerSigOk(Placed[m]) /\ UserSigOk(Placed[m])
              /\ ~(ServerSigOk(Placed[k]) /\ UserSigOk(Placed[k])) )
            => /\ result.status = "thrown"
               /\ result.msg \in SignatureErrors
               /\ result.vals = <<Placed[k].roundId>>
               /\ (result.msg = "Invalid server signature for bet with roundId: ")
                     <=> ~ServerSigOk(Placed[k])

C10_Witness ==
    /\ FirstCallDone
    /\ variant = "index"
    /\ Len(delivered) = 2
    /\ i = 1
    /\ Failed("Invalid player signature for bet with roundId: ")
    /\ result.vals = <<Placed[2].roundId>>
    /\ \A m \in 1..2 : RecordOkButSigs(Placed, m)
    /\ ServerSigOk(Placed[1]) /\ UserSigOk(Placed[1]) /\ ServerSigOk(Placed[2])

\* the lists obtained from d by replacing one seed of one record by another value
SeedReplacements(d) ==
    ( {[d EXCEPT ![k].serverSeed = x] : k \in 1..Len(d), x \in 0..(HashSpace - 1)}
      \cup {[d EXCEPT ![k].userSeed = x] : k \in 1..Len(d), x \in 0..(HashSpace - 1)} )
    \ {d}

\* the seed a hash commits to
Preimage(h) == CHOOSE x \in 0..(HashSpace - 1) : keccak(x) = h

\* the delivered list is a consistent one with one seed replaced: putting the
\* committed seed back into one record makes it consistent
SeedReplaced ==
    /\ Len(delivered) = ExpectedCount
    /\ \E k \in 1..Len(delivered) :
          LET sSeed == Preimage(delivered[k].serverHash)
              uSeed == Preimage(delivered[k].userHash)
          IN  \/ /\ delivered[k].serverSeed # sSeed
                 /\ ConsistentList([delivered EXCEPT ![k].serverSeed = sSeed])
              \/ /\ delivered[k].userSeed # uSeed
                 /\ ConsistentList([delivered EXCEPT ![k].userSeed = uSeed])

SeedTamperErrors == SeedErrors \cup {ChainError, OutcomeError}

\* C11: in an otherwise consistent session, one record's serverSeed or userSeed
\* replaced by any different value makes verifyBets throw a seed, hash-chain or
\* result-number Error; it never returns true.  Both for the run of the state
\* machine on such a session and for every replacement applied to the
\* delivered list of a consistent session.
C11_SeedReplacementRejected ==
    FirstCallDone =>
        /\ SeedReplaced => result.status = "thrown" /\ result.msg \in SeedTamperErrors
        /\ ConsistentList(delivered) =>
               \A d \in SeedReplacements(delivered) :
                   LET r == verifyBets(variant, gameId, d, gameData)
                   IN  r.status = "thrown" /\ r.msg \in SeedTamperErrors

C11_Witness ==
    /\ FirstCallDone
    /\ SeedReplaced
    /\ Len(delivered) = 2
    /\ i = 1
    /\ Failed("Invalid server seed for bet with roundId: ")

\* the delivered list is the list of a consistent session with two adjacent
\* records exchanged
SwappedOnce ==
    \E p \in 1..(Len(delivered) - 1) : ConsistentList(SwapAt(delivered, p))

HashChainErrors == AnchorErrors \cup {ChainError}

\* C12: the delivered list of a consistent session of two or more records with
\* two adjacent records exchanged makes verifyBets throw a first-bet (anchor)
\* Error or the hash-chain Error, whichever pair is exchanged.
C12_AdjacentSwapRejected ==
    FirstCallDone =>
        /\ SwappedOnce => result.status = "thrown" /\ result.msg \in HashChainErrors
        /\ ConsistentList(delivered) =>
               \A p \in 1..(Len(delivered) - 1) :
                   LET r == verifyBets(variant, gameId, SwapAt(delivered, p), gameData)
                   IN  r.status = "thrown" /\ r.msg \in HashChainErrors

\* the two newest of three records exchanged: the anchors hold, the link breaks
C12_Witness ==
    /\ FirstCallDone
    /\ SwappedOnce
    /\ Len(delivered) = 3
    /\ i = 1
    /\ Failed(ChainError)

\* the two oldest records exchanged: the anchor does not match
C12_WitnessAnchor ==
    /\ FirstCallDone
    /\ SwappedOnce
    /\ result.status = "thrown"
    /\ result.msg \in AnchorErrors

\* record k of s breaks a chain: its link to the record before it, or, for the
\* first record, the anchors
ChainBreakAt(s, k) == IF k = 1 THEN ~AnchorsOk(s) ELSE ~LinkOk(s, k)

\* record j of s fails a signature, result-number or balance check
OtherFaultAt(s, j) ==
    ~ServerSigOk(s[j]) \/ ~UserSigOk(s[j]) \/ ~OutcomeOk(s[j]) \/ ~BalanceOk(s, j)

\* a chain break at some record and another fault at an earlier record
BreakAfterFault ==
    \E k \in 2..Len(Placed) :
        /\ ChainBreakAt(Placed, k)
        /\ \E j \in 1..(k - 1) : OtherFaultAt(Placed, j)

\* C16: the hash chains are validated over the whole sequence before any
\* signature, result-number or balance check: a session of the expected length
\* with a chain break at some record and an invalid signature, wrong result
\* number or wrong balance at an earlier record fails with a hash-chain Error.
C16_ChainValidatedFirst ==
    (FirstCallDone /\ Len(delivered) = ExpectedCount /\ BreakAfterFault) =>
        result.status = "thrown" /\ result.msg \in HashChainErrors

\* the roundIds of s are strictly ascending
AscendingRoundIds(s) == \A k \in 1..(Len(s) - 1) : s[k].roundId < s[k + 1].roundId

\* C17: whenever verifyBets returns true, the records as it processed them
\* (bets after the reversal) are in strictly ascending roundId order.
C17_ProcessedAscending ==
    (FirstCallDone /\ Succeeded) => AscendingRoundIds(bets)

\* the contract addresses a bet record can carry
ContractFieldValues ==
    {"CONTRACT_ADDRESS_OLD", "CONTRACT_ADDRESS", "CONTRACT_ADDRESS2", "CONTRACT_ADDRESS3",
     "CONTRACT_ADDRESS4", "CONTRACT_ADDRESS_OTHER"}

\* C19: every signature check of the loop is made against the contract and
\* the server address of the session's era, and the contract address a bet
\* record carries has no influence on them, in both variants.
C19_EraIdentitiesUsed ==
    (pc = "loop" /\ i < Len(bets)) =>
        /\ sigServerAddress(variant, gameId) = EraServer
        /\ \A c \in ContractFieldValues :
               sigContractAddress(variant, gameId, [bets[i + 1] EXCEPT !.contractAddress = c])
                   = EraContract

\* C20: whenever verifyBets returns true for session gameId, every record
\* carries that gameId and every user signature was checked against one and
\* the same user address.
C20_OneSessionOneUser ==
    (FirstCallDone /\ Succeeded) =>
        /\ \A k \in 1..Len(bets) : bets[k].gameId = gameId
        /\ \A k, m \in 1..Len(bets) : bets[k].user = bets[m].user

\* the two halves of C20 apart
C20_GameIdOnly ==
    (FirstCallDone /\ Succeeded) => \A k \in 1..Len(bets) : bets[k].gameId = gameId

C20_UserOnly ==
    (FirstCallDone /\ Succeeded) => \A k, m \in 1..Len(bets) : bets[k].user = bets[m].user

(***************************************************************************)
(* Claims about the click handler and verifyGameSession (SpecSession).     *)
(***************************************************************************)
UnsupportedError == "Verification not supported for games below game id 256!"
SuccessText == "All  bets for game session  are valid!"

Started(r) == runs[r].pc # "idle" /\ runs[r].input.isNumber /\ world.web3

\* C13: for every game id below the lowest supported one the selection of the
\* era fails with the unsupported-session Error: no contract and no server
\* address is selected and nothing is fetched or verified, in both variants.
C13_UnsupportedBelowMinimum ==
    \A r \in RunIds :
        (Started(r) /\ runs[r].input.value < MinSupportedGameId) =>
            /\ runs[r].pc = "finished"
            /\ runs[r].error = UnsupportedError
            /\ runs[r].contractAddress = "none"
            /\ runs[r].serverAddress = "none"
            /\ ~runs[r].betsFetched
            /\ ~runs[r].createdQueried
            /\ ~runs[r].endedQueried
            /\ ~runs[r].verifyCalled

\* the ledger holds exactly one event of the kind for the session of run r
CreatedOk(r) ==
    LET evs == Answer(runs[r].gameId).created
    IN  Len(evs) = 1 /\ evs[1].gameId = runs[r].gameId

EndedOk(r) ==
    LET evs == Answer(runs[r].gameId).ended
    IN  Len(evs) = 1 /\ evs[1].gameId = runs[r].gameId

NoEndpoints(r) ==
    /\ runs[r].gameData.rejected # ""
    /\ ~runs[r].verifyCalled
    /\ runs[r].alert.msg # SuccessText

\* C14: getGameData yields the game data only if the ledger returned exactly
\* one LogGameCreated and exactly one LogGameEnded event, both carrying the
\* game id; otherwise the run is rejected with the Error naming the event, the
\* LogGameEnded query is not issued after a rejected LogGameCreated answer,
\* verifyBets is never called and no success is alerted.
C14_EndpointsNeedBothEvents ==
    \A r \in RunIds :
        /\ runs[r].gameData.rejected = "" => CreatedOk(r) /\ EndedOk(r)
        /\ runs[r].verifyCalled => runs[r].gameData.rejected = ""
        /\ (runs[r].createdQueried /\ runs[r].pc # "created" /\ ~CreatedOk(r)) =>
              /\ ~runs[r].endedQueried
              /\ NoEndpoints(r)
              /\ runs[r].error = "Could not read game info (LogGameCreatedEvent)!"
        /\ (runs[r].endedQueried /\ runs[r].pc # "ended" /\ ~EndedOk(r)) =>
              /\ NoEndpoints(r)
              /\ runs[r].error = "Could not read game info (LogGameEndedEvent)!"

\* the ledger returned two LogGameEnded events: rejected after both queries
C14_Witness ==
    \E r \in RunIds :
        /\ runs[r].pc = "finished"
        /\ Len(Answer(runs[r].gameId).ended) = 2
        /\ runs[r].endedQueried
        /\ runs[r].alert = ErrorAlert(runs[r].gameId,
                                      "Could not read game info (LogGameEndedEvent)!")

\* no LogGameCreated event: rejected before the second query
C14_WitnessCreated ==
    \E r \in RunIds :
        /\ runs[r].pc = "finished"
        /\ Len(Answer(runs[r].gameId).created) = 0
        /\ runs[r].createdQueried
        /\ ~runs[r].endedQueried

\* what one click alerts when no other click is made: the steps of the click
\* handler and of verifyGameSession applied one after the other to the world
AloneVerdict(v, w, typed) ==
    LET id  == typed.value
        era == EraSelection(v, id)
    IN  IF ~typed.isNumber THEN ParseAlert
        ELSE IF ~w.web3 THEN ErrorAlert(id, "You need a web3 enabled browser!")
        ELSE IF era.thrown # "" THEN ErrorAlert(id, era.thrown)
        ELSE IF w.network # CHAIN_ID THEN ErrorAlert(id, "You need to use the Main Network")
        ELSE LET ses == w.sessions[id]
                 gd  == getGameData([created |-> ses.created, ended |-> ses.ended], id)
             IN  IF gd.rejected # "" THEN ErrorAlert(id, gd.rejected)
                 ELSE LET res == verifyBets(v, id, ses.bets, gd)
                      IN  IF res.status = "thrown" THEN ErrorAlert(id, res.msg)
                          ELSE AlertText("done", res, Len(ses.bets), id)

\* C15: two verifications running at once for different sessions do not
\* interact: in whatever order their callbacks run, what each one alerts is
\* what it alerts when it runs alone.
C15_RunsIndependent ==
    \A r \in RunIds :
        runs[r].pc = "finished" => runs[r].alert = AloneVerdict(variant, world, runs[r].input)

\* both runs were in flight together, one ended in success and the other in an
\* invalid server signature
C15_Witness ==
    /\ \A r \in RunIds : runs[r].pc = "finished" /\ runs[r].concurrent
    /\ runs["a"].alert.msg = SuccessText
    /\ runs["b"].alert.error = "Invalid server signature for bet with roundId: "

\* the thresholds at which the era changes, and the interval a game id lies in
Thresholds(v) ==
    IF v = "index" THEN {GAME_ID_CONTRACT_CHANGED}
    ELSE {MinSupportedGameId, NEW_EIP_GAME_ID, OLD_EIP_GAME_ID}

IntervalOf(v, id) == Cardinality({t \in Thresholds(v) : t <= id})

Supported(v, id) == v = "index" \/ id >= MinSupportedGameId

\* the ids the era functions are compared on: each threshold, its two
\* neighbours, and zero
ProbeIds == EraIds \cup {id + 1 : id \in EraIds} \cup {0}

\* C18: the thresholds cut the game ids into contiguous intervals, every
\* supported id lies in exactly one, and contract, server address and signature
\* version are the same for all ids of an interval; in src/unnamed/part_000
\* getSignatureVersion is 2 exactly for the ids getContractAddress maps to
\* CONTRACT_ADDRESS3 (572 <= id < 638) and 1 for every other supported id.
C18_ErasPartition ==
    /\ \A r \in RunIds : \A id \in ProbeIds :
          ( /\ Started(r)
            /\ Supported(variant, runs[r].gameId)
            /\ IntervalOf(variant, id) = IntervalOf(variant, runs[r].gameId) ) =>
              /\ EraSelection(variant, id).contractAddress = runs[r].contractAddress
              /\ EraSelection(variant, id).serverAddress = runs[r].serverAddress
              /\ sigVersion(variant, id) = sigVersion(variant, runs[r].gameId)
    /\ (\A r \in RunIds : runs[r].pc = "idle") =>
          \A v \in Variants, id1 \in ProbeIds, id2 \in ProbeIds :
              ( /\ Supported(v, id1)
                /\ Supported(v, id2)
                /\ IntervalOf(v, id1) = IntervalOf(v, id2) ) =>
                  /\ EraSelection(v, id1) = EraSelection(v, id2)
                  /\ sigVersion(v, id1) = sigVersion(v, id2)
    /\ \A id \in ProbeIds :
          Supported("part_000", id) =>
              /\ getSignatureVersion(id) \in {1, 2}
              /\ getSignatureVersion(id) = 2 <=> getContractAddress(id) = "CONTRACT_ADDRESS3"
              /\ getContractAddress(id) = "CONTRACT_ADDRESS3"
                     <=> (NEW_EIP_GAME_ID <= id /\ id < OLD_EIP_GAME_ID)

\* a session of the era of CONTRACT_ADDRESS3 verified under version 2
C18_Witness ==
    \E r \in RunIds :
        /\ variant = "part_000"
        /\ runs[r].gameId = NEW_EIP_GAME_ID
        /\ runs[r].contractAddress = "CONTRACT_ADDRESS3"
        /\ sigVersion(variant, runs[r].gameId) = 2
        /\ runs[r].verifyCalled

====
